---- MODULE Spec2Model ----
(***************************************************************************)
(* Membership payment-and-renewal lifecycle of the KamuneElites backend.   *)
(*                                                                         *)
(* The model follows one membership document of the memberships collection *)
(* (src/models/Membership.js) through the membership routes                *)
(* (src/routes/events.js, lines 450-1115) and through direct calls of the  *)
(* schema methods.  Dates are whole days counted from 2024-01-01; the      *)
(* calendar arithmetic of Date.setMonth / Date.setFullYear is modelled     *)
(* with its day overflow.                                                  *)
(***************************************************************************)
EXTENDS Integers, Sequences, FiniteSets, TLC

(***************************************************************************)
(* Bounds of the model.                                                    *)
(***************************************************************************)
\* POST /:id/pay is requested at most this often
MaxPayments == 2
\* a gateway callback for one CheckoutRequestID is delivered at most this often
MaxDeliveries == 2
\* a membership is renewed at most this often
MaxRenewals == 2
\* every client of the method-level specifications makes at most this many calls
MaxCalls == 1

\* the days on which requests arrive: 2024-01-31, 2024-03-02, 2024-04-11, 2024-05-06
ClockDays == {30, 61, 101, 126}
\* amounts a payment request carries
Amounts == {100, 250}
\* values Math.floor(Math.random() * 10000) takes in the model
RandomDraws == {42}

(***************************************************************************)
(* Enumerations of the schema.                                             *)
(***************************************************************************)
MembershipTypes == {"gold", "silver", "bronze"}
PaymentPlans == {"monthly", "annual"}
Statuses == {"pending", "active", "suspended", "expired", "cancelled"}
PaymentStatuses == {"pending", "completed", "failed", "refunded"}
PaymentMethods == {"mpesa", "card"}

\* requesters: the applicant, another authenticated user, an administrator
Users == {"u1", "u2", "admin"}
Applicants == {"u1"}
role(u) == IF u = "admin" THEN "admin" ELSE "user"

\* a Date path that is not set
NoDate == -1
\* a String path that is not set
NoString == "<unset>"
\* a request body field that is absent
Absent == "<absent>"
\* membershipNumber not set
NoNumber == <<>>
\* transactionId null
NoTxn == 0
\* no membership document stored
NoDoc == [exists |-> FALSE]

(***************************************************************************)
(* Calendar: days since 2024-01-01, months 0..11 as in JavaScript.         *)
(***************************************************************************)
IsLeap(y) == y % 4 = 0 /\ (y % 100 # 0 \/ y % 400 = 0)

DaysInYear(y) == IF IsLeap(y) THEN 366 ELSE 365

DaysInMonth(y, m) ==
  IF m = 1 THEN (IF IsLeap(y) THEN 29 ELSE 28)
  ELSE IF m \in {3, 5, 8, 10} THEN 30 ELSE 31

RECURSIVE YearStart(_)
YearStart(y) == IF y <= 2024 THEN 0 ELSE YearStart(y - 1) + DaysInYear(y - 1)

RECURSIVE MonthOffset(_, _)
MonthOffset(y, m) == IF m = 0 THEN 0 ELSE MonthOffset(y, m - 1) + DaysInMonth(y, m - 1)

\* new Date(y, m, d): a month of 12 and a day past the end of the month roll over
MakeDate(y, m, d) ==
  IF m >= 12 THEN YearStart(y + 1) + MonthOffset(y + 1, m - 12) + d - 1
  ELSE YearStart(y) + MonthOffset(y, m) + d - 1

getFullYear(n) ==
  CHOOSE y \in (2024 + n \div 366)..(2024 + n \div 365) :
    YearStart(y) <= n /\ n < YearStart(y + 1)

getMonth(n) ==
  LET y == getFullYear(n)
  IN CHOOSE m \in 0..11 :
       /\ YearStart(y) + MonthOffset(y, m) <= n
       /\ n < YearStart(y) + MonthOffset(y, m) + DaysInMonth(y, m)

getDate(n) ==
  LET y == getFullYear(n)
  IN n - (YearStart(y) + MonthOffset(y, getMonth(n))) + 1

\* d.setFullYear(d.getFullYear() + 1)
setFullYearPlus1(n) == MakeDate(getFullYear(n) + 1, getMonth(n), getDate(n))

\* d.setMonth(d.getMonth() + 1)
setMonthPlus1(n) == MakeDate(getFullYear(n), getMonth(n) + 1, getDate(n))

(***************************************************************************)
(* State.                                                                  *)
(***************************************************************************)
VARIABLES
  now,        \* the current date, new Date()
  db,         \* the stored membership document, or NoDoc
  resp,       \* the last request answered: route and HTTP status
  delivered,  \* per CheckoutRequestID, the successful callbacks delivered
  renewals,   \* the renewals made so far
  client,     \* method-level clients: a loaded copy of the document each
  coll,       \* the memberships collection where several documents matter
  donations,  \* the donations collection
  lastCallback, \* the donation callback delivered last, whether it found its
              \* donation, and how often in a row it was delivered
  applying,   \* POST /apply handlers between their lookup and their create
  event,      \* the stored event users register for
  handlers,   \* registration handlers between their lookup and their save
  accounts    \* the users collection: role and isActive of every account

\* the collections that the actions on the one membership document leave alone
others == <<coll, donations, lastCallback, applying, event, handlers, accounts>>

vars == <<now, db, resp, delivered, renewals, client, coll, donations, lastCallback,
         applying, event, handlers, accounts>>

Clients == {"c1", "c2"}
CheckoutIds == 1..MaxPayments

(***************************************************************************)
(* The fee schedule and the membership number.                             *)
(***************************************************************************)
\* variant: a / 12 rounded down
RoundDiv12Floor(a) == a \div 12

\* Math.round(a / 12) for a positive integer a
RoundDiv12(a) == (2 * a + 12) \div 24

getMembershipFees ==
  [gold   |-> [annual |-> 5000, monthly |-> RoundDiv12(5000)],
   silver |-> [annual |-> 3000, monthly |-> RoundDiv12(3000)],
   bronze |-> [annual |-> 1500, monthly |-> RoundDiv12(1500)]]

toUpperCase(t) ==
  CASE t = "gold" -> "GOLD" [] t = "silver" -> "SILVER" [] t = "bronze" -> "BRONZE"

\* Number.prototype.toString: the decimal digits of n
RECURSIVE toDigits(_)
toDigits(n) == IF n < 10 THEN <<n>> ELSE toDigits(n \div 10) \o <<n % 10>>

\* variant: no padding
padStartNone(ds) == ds

\* String.prototype.padStart(4, '0') on a digit string
RECURSIVE padStart4(_)
padStart4(ds) == IF Len(ds) >= 4 THEN ds ELSE padStart4(<<0>> \o ds)

\* `KCE-${typeCode}-${year}-${random}` as the tuple of its parts
generateMembershipNumber(doc, t, random) ==
  <<"KCE", toUpperCase(doc.membershipType), getFullYear(t)>> \o padStart4(toDigits(random))

(***************************************************************************)
(* Membership.create: the document built from the given data, every path   *)
(* the data leaves out taking its schema default.                          *)
(***************************************************************************)
create(data) ==
  [exists |-> TRUE,
   applicant |-> data.applicant,
   membershipType |-> data.membershipType,
   paymentPlan |-> data.paymentPlan,
   status |-> IF data.status = Absent THEN "pending" ELSE data.status,
   membershipNumber |-> data.membershipNumber,
   approvalDate |-> NoDate,
   startDate |-> NoDate,
   expiryDate |-> NoDate,
   lastRenewalDate |-> NoDate,
   renewalReminderSent |-> FALSE,
   reviewedBy |-> NoString,
   notes |-> NoString,
   fees |-> data.fees,
   payments |-> <<>>,
   paymentProgress |-> [totalPaid |-> 0,
                        lastPaymentDate |-> NoDate,
                        nextPaymentDate |-> NoDate,
                        paymentStatus |-> "pending",
                        overdueAmount |-> 0,
                        consecutivePayments |-> 0]]

(***************************************************************************)
(* Schema methods, each as the document it leaves (the method's own save   *)
(* is applied by the caller's action).                                     *)
(***************************************************************************)
\* variant: the billing periods of the two plans exchanged
nextPeriodSwapped(plan, t) ==
  IF plan = "annual" THEN setMonthPlus1(t) ELSE setFullYearPlus1(t)

nextPeriod(plan, t) ==
  IF plan = "annual" THEN setFullYearPlus1(t) ELSE setMonthPlus1(t)

approve(doc, reviewerId, t, random) ==
  [doc EXCEPT !.status = "active",
              !.approvalDate = t,
              !.startDate = t,
              !.reviewedBy = reviewerId,
              !.membershipNumber = generateMembershipNumber(doc, t, random),
              !.expiryDate = nextPeriod(doc.fees.selectedPlan, t),
              !.paymentProgress.nextPaymentDate = nextPeriod(doc.fees.selectedPlan, t)]

\* variant: the completed-payment update leaves overdueAmount as it is
progressUpdateKeepsOverdue(doc, amount, t) ==
  [doc EXCEPT !.paymentProgress =
     [totalPaid |-> doc.paymentProgress.totalPaid + amount,
      lastPaymentDate |-> t,
      nextPaymentDate |-> nextPeriod(doc.fees.selectedPlan, t),
      paymentStatus |-> "up_to_date",
      overdueAmount |-> doc.paymentProgress.overdueAmount,
      consecutivePayments |-> doc.paymentProgress.consecutivePayments + 1]]

\* the completed-payment update of paymentProgress
progressUpdate(doc, amount, t) ==
  [doc EXCEPT !.paymentProgress =
     [totalPaid |-> doc.paymentProgress.totalPaid + amount,
      lastPaymentDate |-> t,
      nextPaymentDate |-> nextPeriod(doc.fees.selectedPlan, t),
      paymentStatus |-> "up_to_date",
      overdueAmount |-> 0,
      consecutivePayments |-> doc.paymentProgress.consecutivePayments + 1]]

\* variant: every payment but a failed one applies the completed-payment update
addPaymentUnlessFailed(doc, paymentData, t) ==
  LET payment == [paymentId |-> paymentData.paymentId,
                  amount |-> paymentData.amount,
                  paymentDate |-> t,
                  paymentMethod |-> paymentData.paymentMethod,
                  transactionId |-> paymentData.transactionId,
                  status |-> IF paymentData.status = Absent THEN "completed"
                             ELSE paymentData.status]
      pushed == [doc EXCEPT !.payments = Append(doc.payments, payment)]
  IN IF payment.status # "failed"
     THEN progressUpdate(pushed, payment.amount, t)
     ELSE pushed

addPayment(doc, paymentData, t) ==
  LET payment == [paymentId |-> paymentData.paymentId,
                  amount |-> paymentData.amount,
                  paymentDate |-> t,
                  paymentMethod |-> paymentData.paymentMethod,
                  transactionId |-> paymentData.transactionId,
                  status |-> IF paymentData.status = Absent THEN "completed"
                             ELSE paymentData.status]
      pushed == [doc EXCEPT !.payments = Append(doc.payments, payment)]
  IN IF payment.status = "completed"
     THEN progressUpdate(pushed, payment.amount, t)
     ELSE pushed

\* variant: the annual plan owes the whole annual fee, whatever was paid
checkPaymentStatusWholeFee(doc, t) ==
  IF doc.paymentProgress.nextPaymentDate # NoDate /\ t > doc.paymentProgress.nextPaymentDate
  THEN [doc EXCEPT !.paymentProgress.paymentStatus = "overdue",
                   !.paymentProgress.overdueAmount =
                      IF doc.fees.selectedPlan = "monthly"
                      THEN ((t - doc.paymentProgress.nextPaymentDate) \div 30) * doc.fees.monthlyAmount
                      ELSE doc.fees.annualAmount]
  ELSE doc

\* variant: the months overdue rounded up instead of down
checkPaymentStatusCeil(doc, t) ==
  IF doc.paymentProgress.nextPaymentDate # NoDate /\ t > doc.paymentProgress.nextPaymentDate
  THEN [doc EXCEPT !.paymentProgress.paymentStatus = "overdue",
                   !.paymentProgress.overdueAmount =
                      IF doc.fees.selectedPlan = "monthly"
                      THEN ((t - doc.paymentProgress.nextPaymentDate + 29) \div 30) * doc.fees.monthlyAmount
                      ELSE doc.fees.annualAmount - doc.paymentProgress.totalPaid]
  ELSE doc

checkPaymentStatus(doc, t) ==
  IF doc.paymentProgress.nextPaymentDate # NoDate /\ t > doc.paymentProgress.nextPaymentDate
  THEN [doc EXCEPT !.paymentProgress.paymentStatus = "overdue",
                   !.paymentProgress.overdueAmount =
                      IF doc.fees.selectedPlan = "monthly"
                      THEN ((t - doc.paymentProgress.nextPaymentDate) \div 30) * doc.fees.monthlyAmount
                      ELSE doc.fees.annualAmount - doc.paymentProgress.totalPaid]
  ELSE doc

\* variant: only a cancelled membership is rejected
renewThrowsCancelledOnly(doc) == doc.status = "cancelled"

\* renew throws unless the status is active or expired
renewThrows(doc) == doc.status # "active" /\ doc.status # "expired"

\* variant: the new expiryDate always counts from the time of the renewal
renewFromNow(doc, t) ==
  IF renewThrows(doc) THEN doc
  ELSE [doc EXCEPT !.status = "active",
                   !.lastRenewalDate = t,
                   !.renewalReminderSent = FALSE,
                   !.expiryDate = nextPeriod(doc.fees.selectedPlan, t)]

renew(doc, t) ==
  IF renewThrows(doc) THEN doc
  ELSE [doc EXCEPT !.status = "active",
                   !.lastRenewalDate = t,
                   !.renewalReminderSent = FALSE,
                   !.expiryDate = nextPeriod(doc.fees.selectedPlan,
                                             IF doc.expiryDate # NoDate THEN doc.expiryDate ELSE t)]

(***************************************************************************)
(* Initial state: an empty collection, no request answered yet.            *)
(***************************************************************************)
\* no donation callback delivered yet
NoCallback == [checkoutRequestId |-> NoTxn, resultCode |-> 0, receipt |-> NoString,
               found |-> FALSE, deliveries |-> 0]

\* seats of the event that is open for registration
EventCapacity == 1

\* a published event in the future, with registration required, a capacity,
\* no deadline and nobody registered
PublishedEvent ==
  [status |-> "published", registrationRequired |-> TRUE, capacity |-> EventCapacity,
   registeredAttendees |-> <<>>]

\* no registration request in progress
NoHandler == [op |-> "none", user |-> NoString, event |-> PublishedEvent, stale |-> FALSE]

\* the accounts at the start: two members and one administrator, all active
SeededAccounts ==
  [u \in Users |-> [exists |-> TRUE, role |-> IF u = "admin" THEN "admin" ELSE "member",
                    isActive |-> TRUE]]

IdleClient == [pc |-> "idle", doc |-> NoDoc, calls |-> 0, op |-> "none", result |-> "none", paid |-> 0]

Init ==
  /\ now = CHOOSE d \in ClockDays : \A e \in ClockDays : d <= e
  /\ db = NoDoc
  /\ resp = [op |-> "none", code |-> 0]
  /\ delivered = [c \in CheckoutIds |-> 0]
  /\ renewals = 0
  /\ client = [c \in Clients |-> IdleClient]
  /\ coll = <<>>
  /\ donations = <<>>
  /\ lastCallback = NoCallback
  /\ applying = [c \in Clients |-> NoString]
  /\ event = PublishedEvent
  /\ handlers = [c \in Clients |-> NoHandler]
  /\ accounts = SeededAccounts

\* a membershipNumber a request body can carry
BodyNumbers == {NoNumber, <<"KCE", "GOLD", 2020, 0, 0, 0, 1>>}

\* req.body[field] || current
orElse(bodyValue, current) == IF bodyValue = Absent THEN current ELSE bodyValue

\* the index of the first payment carrying the transaction id, 0 when none does
findPayment(doc, txn) ==
  IF \E i \in 1..Len(doc.payments) : doc.payments[i].transactionId = txn
  THEN CHOOSE i \in 1..Len(doc.payments) :
         /\ doc.payments[i].transactionId = txn
         /\ \A j \in 1..(i - 1) : doc.payments[j].transactionId # txn
  ELSE 0

(***************************************************************************)
(* Routes of /api/membership.  Each action is one request, handled from    *)
(* its lookup to its save.                                                 *)
(***************************************************************************)
\* POST /apply
Apply(u, type, plan, bodyStatus, bodyNumber) ==
  /\ u \in Applicants
  /\ IF db # NoDoc
     THEN /\ resp' = [op |-> "apply", code |-> 400]
          /\ UNCHANGED db
     ELSE LET selectedFees == getMembershipFees[type]
              membershipData ==
                [membershipType |-> type,
                 paymentPlan |-> plan,
                 status |-> bodyStatus,
                 membershipNumber |-> bodyNumber,
                 applicant |-> u,
                 fees |-> [monthlyAmount |-> selectedFees.monthly,
                           annualAmount |-> selectedFees.annual,
                           selectedPlan |-> plan,
                           selectedAmount |-> IF plan = "monthly" THEN selectedFees.monthly
                                              ELSE selectedFees.annual]]
          IN /\ db' = create(membershipData)
             /\ resp' = [op |-> "apply", code |-> 201]
  /\ UNCHANGED <<now, delivered, renewals, client, others>>

\* variant: the entry of a failed gateway call is taken out again
settlePaymentDropsFailed(doc, paymentId, paymentMethod, gatewayOk) ==
  LET i == CHOOSE k \in 1..Len(doc.payments) : doc.payments[k].paymentId = paymentId
  IN IF paymentMethod = "mpesa"
     THEN IF gatewayOk
          THEN [doc EXCEPT !.payments[i].transactionId = paymentId]
          ELSE [doc EXCEPT !.payments = SubSeq(doc.payments, 1, i - 1)]
     ELSE [doc EXCEPT !.payments[i].status = "completed"]

\* the payment entry of POST /:id/pay after the gateway call or the simulated success
settlePayment(doc, paymentId, paymentMethod, gatewayOk) ==
  LET i == CHOOSE k \in 1..Len(doc.payments) : doc.payments[k].paymentId = paymentId
  IN IF paymentMethod = "mpesa"
     THEN IF gatewayOk
          THEN [doc EXCEPT !.payments[i].transactionId = paymentId]
          ELSE [doc EXCEPT !.payments[i].status = "failed"]
     ELSE [doc EXCEPT !.payments[i].status = "completed"]

\* POST /:id/pay
Pay(u, paymentMethod, amount, gatewayOk) ==
  /\ IF db = NoDoc
     THEN /\ resp' = [op |-> "pay", code |-> 404]
          /\ UNCHANGED db
     ELSE IF db.applicant # u
     THEN /\ resp' = [op |-> "pay", code |-> 403]
          /\ UNCHANGED db
     ELSE /\ Len(db.payments) < MaxPayments
          /\ LET paymentId == Len(db.payments) + 1
                 paymentData == [paymentId |-> paymentId,
                                 amount |-> amount,
                                 paymentMethod |-> paymentMethod,
                                 transactionId |-> NoTxn,
                                 status |-> "pending"]
             IN db' = settlePayment(addPayment(db, paymentData, now),
                                    paymentId, paymentMethod, gatewayOk)
          /\ resp' = [op |-> "pay",
                      code |-> IF paymentMethod = "mpesa" /\ ~gatewayOk THEN 400 ELSE 200]
  /\ UNCHANGED <<now, delivered, renewals, client, others>>

\* variant: every successful callback also applies the completed-payment update
confirmPaymentWithProgress(doc, i, resultCode) ==
  IF resultCode = 0
  THEN progressUpdate([doc EXCEPT !.payments[i].status = "completed"],
                      doc.payments[i].amount, now)
  ELSE [doc EXCEPT !.payments[i].status = "failed"]

\* the document POST /mpesa-callback saves for a payment it found
confirmPayment(doc, i, resultCode) ==
  IF resultCode = 0
  THEN [doc EXCEPT !.payments[i].status = "completed"]
  ELSE [doc EXCEPT !.payments[i].status = "failed"]

\* POST /mpesa-callback
MpesaCallback(checkoutRequestID, resultCode) ==
  /\ resultCode = 0 => delivered[checkoutRequestID] < MaxDeliveries
  /\ IF db # NoDoc /\ findPayment(db, checkoutRequestID) # 0
     THEN db' = confirmPayment(db, findPayment(db, checkoutRequestID), resultCode)
     ELSE UNCHANGED db
  /\ delivered' = IF resultCode = 0
                  THEN [delivered EXCEPT ![checkoutRequestID] = @ + 1]
                  ELSE delivered
  /\ resp' = [op |-> "callback", code |-> 200]
  /\ UNCHANGED <<now, renewals, client, others>>

\* the paths PUT /:id copies from the request body
allowedFields ==
  {"personalInfo", "contactInfo", "references", "motivation", "goals", "experience",
   "contributions", "volunteerInterests", "availability", "committee", "notes"}

\* variant: every path of the request body is copied
updateFieldsAll(doc, body) ==
  [f \in DOMAIN doc |->
     IF f \in DOMAIN body /\ body[f] # Absent THEN body[f] ELSE doc[f]]

\* allowedFields.forEach: a path is assigned when the body has a value for it
updateFields(doc, body) ==
  [f \in DOMAIN doc |->
     IF f \in allowedFields /\ f \in DOMAIN body /\ body[f] # Absent
     THEN body[f] ELSE doc[f]]

\* PUT /:id with the given request body
UpdateBody(u, body) ==
  /\ IF db = NoDoc
     THEN /\ resp' = [op |-> "update", code |-> 404]
          /\ UNCHANGED db
     ELSE IF db.applicant # u /\ role(u) # "admin"
     THEN /\ resp' = [op |-> "update", code |-> 403]
          /\ UNCHANGED db
     ELSE /\ db' = updateFields(db, body)
          /\ resp' = [op |-> "update", code |-> 200]
  /\ UNCHANGED <<now, delivered, renewals, client, others>>

\* PUT /:id with a body that carries notes only
Update(u, bodyNotes) == UpdateBody(u, [notes |-> bodyNotes])

\* variant: PUT /:id/approve without the check of the status
ApproveAnyStatus(u, random) ==
  /\ IF role(u) # "admin"
     THEN /\ resp' = [op |-> "approve", code |-> 403]
          /\ UNCHANGED db
     ELSE IF db = NoDoc
     THEN /\ resp' = [op |-> "approve", code |-> 404]
          /\ UNCHANGED db
     ELSE /\ db' = approve(db, u, now, random)
          /\ resp' = [op |-> "approve", code |-> 200]
  /\ UNCHANGED <<now, delivered, renewals, client, others>>

\* PUT /:id/approve
Approve(u, random) ==
  /\ IF role(u) # "admin"
     THEN /\ resp' = [op |-> "approve", code |-> 403]
          /\ UNCHANGED db
     ELSE IF db = NoDoc
     THEN /\ resp' = [op |-> "approve", code |-> 404]
          /\ UNCHANGED db
     ELSE IF db.status # "pending"
     THEN /\ resp' = [op |-> "approve", code |-> 400]
          /\ UNCHANGED db
     ELSE /\ db' = approve(db, u, now, random)
          /\ resp' = [op |-> "approve", code |-> 200]
  /\ UNCHANGED <<now, delivered, renewals, client, others>>

\* PUT /:id/suspend
Suspend(u, bodyNotes) ==
  /\ IF role(u) # "admin"
     THEN /\ resp' = [op |-> "suspend", code |-> 403]
          /\ UNCHANGED db
     ELSE IF db = NoDoc
     THEN /\ resp' = [op |-> "suspend", code |-> 404]
          /\ UNCHANGED db
     ELSE /\ db' = [db EXCEPT !.status = "suspended",
                              !.notes = orElse(bodyNotes, db.notes)]
          /\ resp' = [op |-> "suspend", code |-> 200]
  /\ UNCHANGED <<now, delivered, renewals, client, others>>

\* variant: PUT /:id/cancel without the authorization check
CancelAnyone(u, bodyNotes) ==
  /\ IF db = NoDoc
     THEN /\ resp' = [op |-> "cancel", code |-> 404]
          /\ UNCHANGED db
     ELSE /\ db' = [db EXCEPT !.status = "cancelled",
                              !.notes = orElse(bodyNotes, db.notes)]
          /\ resp' = [op |-> "cancel", code |-> 200]
  /\ UNCHANGED <<now, delivered, renewals, client, others>>

\* PUT /:id/cancel
Cancel(u, bodyNotes) ==
  /\ IF db = NoDoc
     THEN /\ resp' = [op |-> "cancel", code |-> 404]
          /\ UNCHANGED db
     ELSE IF db.applicant # u /\ role(u) # "admin"
     THEN /\ resp' = [op |-> "cancel", code |-> 403]
          /\ UNCHANGED db
     ELSE /\ db' = [db EXCEPT !.status = "cancelled",
                              !.notes = orElse(bodyNotes, db.notes)]
          /\ resp' = [op |-> "cancel", code |-> 200]
  /\ UNCHANGED <<now, delivered, renewals, client, others>>

\* PUT /:id/renew
Renew(u) ==
  /\ IF db = NoDoc
     THEN /\ resp' = [op |-> "renew", code |-> 404]
          /\ UNCHANGED <<db, renewals>>
     ELSE IF db.applicant # u
     THEN /\ resp' = [op |-> "renew", code |-> 403]
          /\ UNCHANGED <<db, renewals>>
     ELSE IF db.status # "active" /\ db.status # "expired"
     THEN /\ resp' = [op |-> "renew", code |-> 400]
          /\ UNCHANGED <<db, renewals>>
     ELSE /\ renewals < MaxRenewals
          /\ IF renewThrows(db)
             THEN /\ resp' = [op |-> "renew", code |-> 500]
                  /\ UNCHANGED <<db, renewals>>
             ELSE /\ db' = renew(db, now)
                  /\ renewals' = renewals + 1
                  /\ resp' = [op |-> "renew", code |-> 200]
  /\ UNCHANGED <<now, delivered, client, others>>

\* GET /my-application
GetMyApplication(u) ==
  /\ IF db = NoDoc \/ db.applicant # u
     THEN /\ resp' = [op |-> "my-application", code |-> 404]
          /\ UNCHANGED db
     ELSE /\ db' = checkPaymentStatus(db, now)
          /\ resp' = [op |-> "my-application", code |-> 200]
  /\ UNCHANGED <<now, delivered, renewals, client, others>>

\* time passes: the clock moves to the next day on which requests arrive
Tick ==
  /\ \E d \in ClockDays : d > now
  /\ now' = CHOOSE d \in ClockDays : d > now /\ \A e \in ClockDays : e > now => d <= e
  /\ UNCHANGED <<db, resp, delivered, renewals, client, others>>

(***************************************************************************)
(* Spec: the life of a membership through application, approval,           *)
(* suspension, cancellation, renewal, update and the overdue check.        *)
(***************************************************************************)
\* what a request body of POST /apply carries as status
BodyStatuses == Statuses \cup {Absent}

Next ==
  \/ \E u \in Users, type \in MembershipTypes, plan \in PaymentPlans,
        bodyStatus \in BodyStatuses, bodyNumber \in BodyNumbers :
       Apply(u, type, plan, bodyStatus, bodyNumber)
  \/ \E u \in Users, n \in {Absent, "note"} : Update(u, n)
  \/ \E u \in Users, r \in RandomDraws : Approve(u, r)
  \/ \E u \in Users, n \in {Absent, "note"} : Suspend(u, n)
  \/ \E u \in Users, n \in {Absent, "note"} : Cancel(u, n)
  \/ \E u \in Users : Renew(u)
  \/ \E u \in Users : GetMyApplication(u)
  \/ Tick

Spec == Init /\ [][Next]_vars

(***************************************************************************)
(* PaySpec: payments of a membership and the gateway's callbacks.          *)
(***************************************************************************)
NextPay ==
  \/ \E u \in Users, plan \in PaymentPlans : Apply(u, "gold", plan, Absent, NoNumber)
  \/ \E u \in Users, m \in PaymentMethods, a \in Amounts, ok \in BOOLEAN : Pay(u, m, a, ok)
  \/ \E c \in CheckoutIds, rc \in {0, 1032} : MpesaCallback(c, rc)

PaySpec == Init /\ [][NextPay]_vars

(***************************************************************************)
(* Clients that call the schema methods themselves.  A client loads the    *)
(* stored document (findById), then calls one method on its copy; the      *)
(* method changes the copy and saves it.  Calls of different clients       *)
(* interleave between the load and the save.                               *)
(*   ConcSpec: concurrent addPayment calls.                                *)
(*   MethodSpec: approve() and renew() called on a membership in any       *)
(*   status, beside the renew route, the one caller of renew() in the      *)
(*   repository.                                                           *)
(***************************************************************************)
\* document.save(): the paths changed since the load are written ($set), the
\* entries pushed onto payments are appended to the stored array ($push)
save(stored, loaded, modified) ==
  [f \in DOMAIN stored |->
     IF f = "payments"
     THEN stored.payments \o SubSeq(modified.payments, Len(loaded.payments) + 1,
                                    Len(modified.payments))
     ELSE IF f = "paymentProgress"
     THEN [g \in DOMAIN stored.paymentProgress |->
             IF modified.paymentProgress[g] # loaded.paymentProgress[g]
             THEN modified.paymentProgress[g]
             ELSE stored.paymentProgress[g]]
     ELSE IF modified[f] # loaded[f] THEN modified[f] ELSE stored[f]]

\* the documents POST /apply stores
AppliedDocs ==
  {create([membershipType |-> type, paymentPlan |-> plan, status |-> st,
           membershipNumber |-> NoNumber, applicant |-> u,
           fees |-> [monthlyAmount |-> getMembershipFees[type].monthly,
                     annualAmount |-> getMembershipFees[type].annual,
                     selectedPlan |-> plan,
                     selectedAmount |-> IF plan = "monthly"
                                        THEN getMembershipFees[type].monthly
                                        ELSE getMembershipFees[type].annual]]) :
     type \in {"gold"}, plan \in PaymentPlans, st \in BodyStatuses, u \in Applicants}

InitM ==
  /\ now = CHOOSE d \in ClockDays : \A e \in ClockDays : d <= e
  /\ db \in AppliedDocs
  /\ resp = [op |-> "none", code |-> 0]
  /\ delivered = [c \in CheckoutIds |-> 0]
  /\ renewals = 0
  /\ client = [c \in Clients |-> IdleClient]
  /\ coll = <<>>
  /\ donations = <<>>
  /\ lastCallback = NoCallback
  /\ applying = [c \in Clients |-> NoString]
  /\ event = PublishedEvent
  /\ handlers = [c \in Clients |-> NoHandler]
  /\ accounts = SeededAccounts

\* Membership.findById
Load(c) ==
  /\ client[c].pc # "loaded"
  /\ client[c].calls < MaxCalls
  /\ client' = [client EXCEPT ![c].pc = "loaded", ![c].doc = db]
  /\ UNCHANGED <<now, db, resp, delivered, renewals, others>>

\* membership.addPayment(paymentData)
CallAddPayment(c, amount, status) ==
  /\ client[c].pc = "loaded"
  /\ LET paymentData == [paymentId |-> Len(db.payments) + 1,
                         amount |-> amount,
                         paymentMethod |-> "card",
                         transactionId |-> NoTxn,
                         status |-> status]
         modified == addPayment(client[c].doc, paymentData, now)
         completed == status \in {Absent, "completed"}
     IN /\ db' = save(db, client[c].doc, modified)
        /\ client' = [client EXCEPT ![c] = [pc |-> "done", doc |-> modified,
                                            calls |-> @.calls + 1,
                                            op |-> "addPayment", result |-> "saved",
                                            paid |-> IF completed THEN @.paid + amount
                                                     ELSE @.paid]]
  /\ UNCHANGED <<now, resp, delivered, renewals, others>>

\* membership.renew()
CallRenew(c) ==
  /\ client[c].pc = "loaded"
  /\ renewals < MaxRenewals
  /\ IF renewThrows(client[c].doc)
     THEN /\ client' = [client EXCEPT ![c].pc = "done", ![c].calls = @ + 1,
                                      ![c].op = "renew", ![c].result = "threw"]
          /\ UNCHANGED <<db, renewals>>
     ELSE /\ db' = save(db, client[c].doc, renew(client[c].doc, now))
          /\ renewals' = renewals + 1
          /\ client' = [client EXCEPT ![c].pc = "done", ![c].calls = @ + 1,
                                      ![c].doc = renew(client[c].doc, now),
                                      ![c].op = "renew", ![c].result = "saved"]
  /\ UNCHANGED <<now, resp, delivered, others>>

\* membership.approve(reviewerId)
CallApprove(c, random) ==
  /\ client[c].pc = "loaded"
  /\ db' = save(db, client[c].doc, approve(client[c].doc, "admin", now, random))
  /\ client' = [client EXCEPT ![c].pc = "done", ![c].calls = @ + 1,
                                ![c].doc = approve(client[c].doc, "admin", now, random),
                                ![c].op = "approve", ![c].result = "saved"]
  /\ UNCHANGED <<now, resp, delivered, renewals, others>>

NextConc ==
  \/ \E c \in Clients : Load(c)
  \/ \E c \in Clients, a \in Amounts, st \in {Absent, "completed", "pending"} :
       CallAddPayment(c, a, st)

ConcSpec == InitM /\ [][NextConc]_vars

NextM ==
  \/ \E c \in Clients : Load(c)
  \/ \E c \in Clients : CallRenew(c)
  \/ \E c \in Clients, r \in RandomDraws : CallApprove(c, r)
  \/ \E c \in Clients : CallAddPayment(c, 250, "completed")
  \/ \E u \in Users : Renew(u)

MethodSpec == InitM /\ [][NextM]_vars

(***************************************************************************)
(* UnitSpec: the schema methods called one after another on one stored     *)
(* document, each call running to the end of its save before the next      *)
(* one starts, while the clock moves over more than a year.                *)
(***************************************************************************)
\* 2024-01-31, 2024-02-29, 2025-02-04
UnitDays == {30, 59, 400}

UnitAmounts == {2000, 3000}

\* the documents POST /apply stores for a body without a status
UnitDocs == {d \in AppliedDocs : d.status = "pending"}

InitUnit ==
  /\ now = CHOOSE d \in UnitDays : \A e \in UnitDays : d <= e
  /\ db \in UnitDocs
  /\ resp = [op |-> "none", code |-> 0]
  /\ delivered = [c \in CheckoutIds |-> 0]
  /\ renewals = 0
  /\ client = [c \in Clients |-> IdleClient]
  /\ coll = <<>>
  /\ donations = <<>>
  /\ lastCallback = NoCallback
  /\ applying = [c \in Clients |-> NoString]
  /\ event = PublishedEvent
  /\ handlers = [c \in Clients |-> NoHandler]
  /\ accounts = SeededAccounts

\* membership.approve(reviewerId)
DoApprove(random) ==
  /\ db' = approve(db, "admin", now, random)
  /\ resp' = [op |-> "approve()", code |-> 0]
  /\ UNCHANGED <<now, delivered, renewals, client, others>>

\* membership.addPayment(paymentData)
DoAddPayment(amount, status) ==
  /\ Len(db.payments) < MaxPayments
  /\ db' = addPayment(db, [paymentId |-> Len(db.payments) + 1,
                           amount |-> amount,
                           paymentMethod |-> "card",
                           transactionId |-> NoTxn,
                           status |-> status], now)
  /\ resp' = [op |-> "addPayment()", code |-> 0]
  /\ UNCHANGED <<now, delivered, renewals, client, others>>

\* membership.checkPaymentStatus()
DoCheckPaymentStatus ==
  /\ db' = checkPaymentStatus(db, now)
  /\ resp' = [op |-> "checkPaymentStatus()", code |-> 0]
  /\ UNCHANGED <<now, delivered, renewals, client, others>>

\* the clock moves on to the next day of UnitDays
TickUnit ==
  /\ \E d \in UnitDays : d > now
  /\ now' = CHOOSE d \in UnitDays : d > now /\ \A e \in UnitDays : e > now => d <= e
  /\ UNCHANGED <<db, resp, delivered, renewals, client, others>>

NextUnit ==
  \/ \E r \in RandomDraws : DoApprove(r)
  \/ \E a \in UnitAmounts, st \in PaymentStatuses \cup {Absent} : DoAddPayment(a, st)
  \/ DoCheckPaymentStatus
  \/ TickUnit

UnitSpec == InitUnit /\ [][NextUnit]_vars

(***************************************************************************)
(* CollSpec: the memberships collection with several documents.  POST      *)
(* /apply awaits its lookup before it creates, so handlers of concurrent   *)
(* requests interleave between the two; the database refuses a write that  *)
(* would repeat a membershipNumber (unique sparse index of the schema).    *)
(***************************************************************************)
MaxDocs == 2

Members == {"u1", "u2"}

NumberDraws == {7, 42}

\* the membershipNumber values a request body carries: none, or the text an
\* approval of this year can generate
CollBodyNumbers == {NoNumber, <<"KCE", "GOLD", getFullYear(now)>> \o padStart4(toDigits(42))}

\* variant: no unique index on membershipNumber
membershipNumberFreeNoIndex(docs, number, self) == TRUE

\* unique sparse index on membershipNumber: the write of `number` into the
\* document at position self (0 for a new document) is accepted
membershipNumberFree(docs, number, self) ==
  number = NoNumber
    \/ \A j \in 1..Len(docs) : j # self => docs[j].membershipNumber # number

\* POST /apply up to the answer of Membership.findOne({ applicant })
ApplyFind(c, u) ==
  /\ applying[c] = NoString
  /\ Len(coll) + Cardinality({d \in Clients : applying[d] # NoString}) < MaxDocs
  /\ IF \E i \in 1..Len(coll) : coll[i].applicant = u
     THEN /\ resp' = [op |-> "apply", code |-> 400]
          /\ UNCHANGED applying
     ELSE /\ applying' = [applying EXCEPT ![c] = u]
          /\ UNCHANGED resp
  /\ UNCHANGED <<now, db, accounts,
                 delivered, renewals, client, coll, donations, lastCallback, event, handlers>>

\* POST /apply from Membership.create on
ApplyCreate(c, type, plan, bodyNumber) ==
  /\ applying[c] # NoString
  /\ LET selectedFees == getMembershipFees[type]
         membershipData ==
           [membershipType |-> type,
            paymentPlan |-> plan,
            status |-> Absent,
            membershipNumber |-> bodyNumber,
            applicant |-> applying[c],
            fees |-> [monthlyAmount |-> selectedFees.monthly,
                      annualAmount |-> selectedFees.annual,
                      selectedPlan |-> plan,
                      selectedAmount |-> IF plan = "monthly" THEN selectedFees.monthly
                                         ELSE selectedFees.annual]]
     IN IF membershipNumberFree(coll, bodyNumber, 0)
        THEN /\ coll' = Append(coll, create(membershipData))
             /\ resp' = [op |-> "apply", code |-> 201]
        ELSE /\ resp' = [op |-> "apply", code |-> 500]
             /\ UNCHANGED coll
  /\ applying' = [applying EXCEPT ![c] = NoString]
  /\ UNCHANGED <<now, db, accounts,
                 delivered, renewals, client, donations, lastCallback, event, handlers>>

\* PUT /:id/approve for the document at position i
ApproveDoc(u, i, random) ==
  /\ i \in 1..Len(coll)
  /\ IF role(u) # "admin"
     THEN /\ resp' = [op |-> "approve", code |-> 403]
          /\ UNCHANGED coll
     ELSE IF coll[i].status # "pending"
     THEN /\ resp' = [op |-> "approve", code |-> 400]
          /\ UNCHANGED coll
     ELSE LET approved == approve(coll[i], u, now, random)
          IN IF membershipNumberFree(coll, approved.membershipNumber, i)
             THEN /\ coll' = [coll EXCEPT ![i] = approved]
                  /\ resp' = [op |-> "approve", code |-> 200]
             ELSE /\ resp' = [op |-> "approve", code |-> 500]
                  /\ UNCHANGED coll
  /\ UNCHANGED <<now, db, accounts,
                 delivered, renewals, client, donations, lastCallback, applying, event, handlers>>

NextColl ==
  \/ \E c \in Clients, u \in Members : ApplyFind(c, u)
  \/ \E c \in Clients, n \in CollBodyNumbers : ApplyCreate(c, "gold", "annual", n)
  \/ \E u \in Users, i \in 1..MaxDocs, r \in NumberDraws : ApproveDoc(u, i, r)

CollSpec == Init /\ [][NextColl]_vars

(***************************************************************************)
(* ReadSpec: the routes that answer with paymentProgress, on a membership  *)
(* that was approved some time ago.                                        *)
(***************************************************************************)
\* GET /payment-history
GetPaymentHistory(u) ==
  /\ IF db = NoDoc \/ db.applicant # u
     THEN resp' = [op |-> "payment-history", code |-> 404]
     ELSE resp' = [op |-> "payment-history", code |-> 200]
  /\ UNCHANGED <<now, db, delivered, renewals, client, others>>

NextRead ==
  \/ \E u \in Users, plan \in PaymentPlans : Apply(u, "gold", plan, Absent, NoNumber)
  \/ \E u \in Users, r \in RandomDraws : Approve(u, r)
  \/ \E u \in Users : GetMyApplication(u)
  \/ \E u \in Users : GetPaymentHistory(u)
  \/ Tick

ReadSpec == Init /\ [][NextRead]_vars

(***************************************************************************)
(* Donations paid through M-PESA: POST /api/donations/mpesa-initiate       *)
(* stores a pending donation and then asks the gateway for an STK push;    *)
(* POST /api/donations/mpesa-callback records the gateway's result.        *)
(*   GatewaySpec: initiations of membership payments and of donations,     *)
(*   with a gateway that may fail.                                         *)
(*   DonationSpec: donations and the callbacks delivered for them.         *)
(***************************************************************************)
MaxDonations == 2

Purposes ==
  {"general", "education", "health", "community", "environment", "technology",
   "emergency", "other"}

\* accountReference.split(' '): the default 'Donation' and a two-word name
AccountReferences == {<<"Donation">>, <<"Jane", "Doe">>}

\* transactionDesc: the default text and a purpose of the schema
TransactionDescs == {"Kamune Elites Donation", "general"}

DonationAmounts == {500}

\* the MpesaReceiptNumber item of the callback metadata; Absent when the
\* callback carries none
Receipts == {Absent, "QK1", "QK2"}

\* the document Donation.create builds: given paths and schema defaults
newDonation(accountReference, amount, transactionDesc) ==
  [donor |-> [firstName |-> Head(accountReference),
              lastName |-> Tail(accountReference)],
   amount |-> amount,
   paymentStatus |-> "pending",
   purpose |-> transactionDesc,
   transactionId |-> NoTxn,
   receiptNumber |-> Absent,
   isVerified |-> FALSE,
   verificationDate |-> NoDate]

\* schema validation of a donation: required names, amount minimum, purpose enum
validDonation(d) ==
  /\ d.donor.firstName # ""
  /\ d.donor.lastName # <<>>
  /\ d.amount >= 1
  /\ d.purpose \in Purposes

\* unique sparse index on receiptNumber: the write of `receipt` into the
\* donation at position self is accepted
receiptNumberFree(docs, receipt, self) ==
  receipt = Absent
    \/ \A j \in 1..Len(docs) : j # self => docs[j].receiptNumber # receipt

\* variant: the donation is stored only once the gateway has accepted the push
initiatedDonationsAfterPush(docs, d, gatewayOk) ==
  IF gatewayOk
  THEN Append(docs, [d EXCEPT !.transactionId = Len(docs) + 1])
  ELSE docs

\* the donations after Donation.create and the STK push: the CheckoutRequestID
\* the gateway answers with is saved as transactionId
initiatedDonations(docs, d, gatewayOk) ==
  IF gatewayOk
  THEN Append(docs, [d EXCEPT !.transactionId = Len(docs) + 1])
  ELSE Append(docs, d)

\* POST /api/donations/mpesa-initiate
MpesaInitiate(amount, accountReference, transactionDesc, gatewayOk) ==
  /\ Len(donations) < MaxDonations
  /\ LET d == newDonation(accountReference, amount, transactionDesc)
     IN IF ~validDonation(d)
        THEN /\ resp' = [op |-> "mpesa-initiate", code |-> 500]
             /\ UNCHANGED donations
        ELSE /\ donations' = initiatedDonations(donations, d, gatewayOk)
             /\ resp' = [op |-> "mpesa-initiate", code |-> IF gatewayOk THEN 200 ELSE 500]
  /\ UNCHANGED <<now, db, accounts,
                 delivered, renewals, client, coll, lastCallback, applying, event, handlers>>

\* Donation.findOne({ transactionId }): the position of the donation, 0 when
\* there is none
findDonation(docs, checkoutRequestId) ==
  IF \E i \in 1..Len(docs) : docs[i].transactionId = checkoutRequestId
  THEN CHOOSE i \in 1..Len(docs) : docs[i].transactionId = checkoutRequestId
  ELSE 0

\* variant: a successful callback flips isVerified
donationCallbackRecount(d, resultCode, receipt, t) ==
  IF resultCode = 0
  THEN [d EXCEPT !.paymentStatus = "completed",
                 !.receiptNumber = IF receipt = Absent THEN "" ELSE receipt,
                 !.isVerified = ~d.isVerified,
                 !.verificationDate = t]
  ELSE [d EXCEPT !.paymentStatus = "failed"]

\* what the callback handler assigns to the donation it has found
donationCallback(d, resultCode, receipt, t) ==
  IF resultCode = 0
  THEN [d EXCEPT !.paymentStatus = "completed",
                 !.receiptNumber = IF receipt = Absent THEN "" ELSE receipt,
                 !.isVerified = TRUE,
                 !.verificationDate = t]
  ELSE [d EXCEPT !.paymentStatus = "failed"]

\* the callback is the one delivered last
Redelivery(checkoutRequestId, resultCode, receipt) ==
  /\ lastCallback.checkoutRequestId = checkoutRequestId
  /\ lastCallback.resultCode = resultCode
  /\ lastCallback.receipt = receipt

\* POST /api/donations/mpesa-callback
DonationCallback(checkoutRequestId, resultCode, receipt) ==
  /\ Redelivery(checkoutRequestId, resultCode, receipt)
       => lastCallback.deliveries < MaxDeliveries
  /\ LET i == findDonation(donations, checkoutRequestId)
     IN IF i = 0
        THEN UNCHANGED donations
        ELSE LET d == donationCallback(donations[i], resultCode, receipt, now)
             IN IF receiptNumberFree(donations, d.receiptNumber, i)
                THEN donations' = [donations EXCEPT ![i] = d]
                ELSE UNCHANGED donations
  /\ lastCallback' = [checkoutRequestId |-> checkoutRequestId,
                      resultCode |-> resultCode,
                      receipt |-> receipt,
                      found |-> findDonation(donations, checkoutRequestId) # 0,
                      deliveries |-> IF Redelivery(checkoutRequestId, resultCode, receipt)
                                     THEN lastCallback.deliveries + 1
                                     ELSE 1]
  /\ resp' = [op |-> "donation-callback", code |-> 200]
  /\ UNCHANGED <<now, db, accounts,
                 delivered, renewals, client, coll, applying, event, handlers>>

\* GET /api/donations/stats: the number and the amount of the completed donations
RECURSIVE donationStats(_)
donationStats(docs) ==
  IF docs = <<>> THEN [totalDonations |-> 0, totalAmount |-> 0]
  ELSE LET rest == donationStats(Tail(docs))
       IN IF Head(docs).paymentStatus = "completed"
          THEN [totalDonations |-> rest.totalDonations + 1,
                totalAmount |-> rest.totalAmount + Head(docs).amount]
          ELSE rest

NextGateway ==
  \/ \E u \in Users, plan \in PaymentPlans : Apply(u, "gold", plan, Absent, NoNumber)
  \/ \E u \in Users, m \in PaymentMethods, a \in Amounts, ok \in BOOLEAN : Pay(u, m, a, ok)
  \/ \E a \in DonationAmounts, ref \in AccountReferences, desc \in TransactionDescs,
        ok \in BOOLEAN : MpesaInitiate(a, ref, desc, ok)

GatewaySpec == Init /\ [][NextGateway]_vars

NextDonation ==
  \/ \E a \in DonationAmounts, ref \in AccountReferences, desc \in TransactionDescs,
        ok \in BOOLEAN : MpesaInitiate(a, ref, desc, ok)
  \/ \E c \in 1..MaxDonations, rc \in {0, 1032}, receipt \in Receipts :
       DonationCallback(c, rc, receipt)

DonationSpec == Init /\ [][NextDonation]_vars

(***************************************************************************)
(* NumberSpec: approve() on memberships of every type, with random draws   *)
(* of one to four digits, in two calendar years.                           *)
(***************************************************************************)
\* Math.floor(Math.random() * 10000): draws of every length, and both ends
LengthDraws == {0, 7, 42, 999, 1000, 9999}

InitNumber ==
  /\ now = CHOOSE d \in UnitDays : \A e \in UnitDays : d <= e
  /\ db \in {create([membershipType |-> type, paymentPlan |-> plan, status |-> Absent,
                     membershipNumber |-> NoNumber, applicant |-> u,
                     fees |-> [monthlyAmount |-> getMembershipFees[type].monthly,
                               annualAmount |-> getMembershipFees[type].annual,
                               selectedPlan |-> plan,
                               selectedAmount |-> IF plan = "monthly"
                                                  THEN getMembershipFees[type].monthly
                                                  ELSE getMembershipFees[type].annual]]) :
               type \in MembershipTypes, plan \in PaymentPlans, u \in Applicants}
  /\ resp = [op |-> "none", code |-> 0]
  /\ delivered = [c \in CheckoutIds |-> 0]
  /\ renewals = 0
  /\ client = [c \in Clients |-> IdleClient]
  /\ coll = <<>>
  /\ donations = <<>>
  /\ lastCallback = NoCallback
  /\ applying = [c \in Clients |-> NoString]
  /\ event = PublishedEvent
  /\ handlers = [c \in Clients |-> NoHandler]
  /\ accounts = SeededAccounts

NextNumber ==
  \/ \E r \in LengthDraws : DoApprove(r)
  \/ TickUnit

NumberSpec == InitNumber /\ [][NextNumber]_vars

(***************************************************************************)
(* FeesSpec: the requests of an applicant and of an administrator on a     *)
(* membership of every type and plan.                                      *)
(***************************************************************************)
NextFees ==
  \/ \E type \in MembershipTypes, plan \in PaymentPlans :
       Apply("u1", type, plan, Absent, NoNumber)
  \/ \E m \in PaymentMethods, ok \in BOOLEAN : Pay("u1", m, 250, ok)
  \/ Update("u1", "note")
  \/ \E r \in RandomDraws : Approve("admin", r)
  \/ Suspend("admin", Absent)
  \/ Cancel("u1", Absent)
  \/ Renew("u1")
  \/ GetMyApplication("u1")

FeesSpec == Init /\ [][NextFees]_vars

(***************************************************************************)
(* AccessSpec: the status-changing routes and PUT /:id, requested by the   *)
(* applicant, by another user and by an administrator, on memberships in   *)
(* every status.                                                           *)
(***************************************************************************)
\* request bodies of PUT /:id: notes, and paths outside the allowed ones
UpdateBodies ==
  {[notes |-> n, status |-> st, applicant |-> a] :
     n \in {Absent, "note"}, st \in {Absent, "active"}, a \in {Absent, "u2"}}

NextAccess ==
  \/ \E plan \in PaymentPlans, bodyStatus \in BodyStatuses :
       Apply("u1", "gold", plan, bodyStatus, NoNumber)
  \/ \E u \in Users, body \in UpdateBodies : UpdateBody(u, body)
  \/ \E u \in Users, r \in RandomDraws : Approve(u, r)
  \/ \E u \in Users : Suspend(u, Absent)
  \/ \E u \in Users, n \in {Absent, "note"} : Cancel(u, n)
  \/ \E u \in Users : Renew(u)
  \/ Pay("u1", "card", 250, TRUE)

AccessSpec == Init /\ [][NextAccess]_vars

(***************************************************************************)
(* AppendSpec: payments, callbacks, approval and cancellation of one       *)
(* annual membership.                                                      *)
(***************************************************************************)
NextAppend ==
  \/ Apply("u1", "gold", "annual", Absent, NoNumber)
  \/ \E u \in {"u1", "u2"}, m \in PaymentMethods, ok \in BOOLEAN : Pay(u, m, 250, ok)
  \/ \E c \in CheckoutIds, rc \in {0, 1032} : MpesaCallback(c, rc)
  \/ \E r \in RandomDraws : Approve("admin", r)
  \/ Cancel("u1", Absent)

AppendSpec == Init /\ [][NextAppend]_vars

(***************************************************************************)
(* What the routes can make of a membership.  Whether a route changes the  *)
(* status depends on the requester and on the status alone, so the         *)
(* statuses within reach are found by following the routes' outcomes from  *)
(* one document per status.                                                *)
(***************************************************************************)
\* the documents one request of approve, renew, suspend, cancel, pay or update
\* can leave in place of doc, over all requesters and inputs
routeOutcomes(doc, t) ==
  (IF doc.status = "pending"
   THEN {approve(doc, "admin", t, r) : r \in RandomDraws} ELSE {})
  \cup (IF renewThrows(doc) THEN {} ELSE {renew(doc, t)})
  \cup {[doc EXCEPT !.status = "suspended"]}
  \cup {[doc EXCEPT !.status = "cancelled"]}
  \cup {settlePayment(addPayment(doc, [paymentId |-> Len(doc.payments) + 1,
                                       amount |-> a,
                                       paymentMethod |-> m,
                                       transactionId |-> NoTxn,
                                       status |-> "pending"], t),
                      Len(doc.payments) + 1, m, ok) :
          a \in Amounts, m \in PaymentMethods, ok \in BOOLEAN}
  \cup {updateFields(doc, body) : body \in UpdateBodies}

\* the statuses within reach of the documents docs, seen being those found so far
RECURSIVE reachableStatuses(_, _, _)
reachableStatuses(docs, seen, t) ==
  LET next == UNION {routeOutcomes(d, t) : d \in docs}
      fresh == {d.status : d \in next} \ seen
  IN IF fresh = {} THEN seen
     ELSE reachableStatuses({CHOOSE d \in next : d.status = st : st \in fresh},
                            seen \cup fresh, t)

(***************************************************************************)
(* EventSpec: registration for an event.  A handler awaits Event.findById  *)
(* and works on the copy it was given; handlers of concurrent requests     *)
(* interleave between that lookup and the save.  Concurrent requests come  *)
(* from different users.                                                   *)
(***************************************************************************)
\* event.registrationCount
registrationCount(e) == Len(e.registeredAttendees)

\* event.isUserRegistered(userId)
isUserRegistered(e, u) == \E i \in 1..Len(e.registeredAttendees) : e.registeredAttendees[i] = u

\* registeredAttendees.filter(id => !id.equals(userId))
RECURSIVE withoutUser(_, _)
withoutUser(attendees, u) ==
  IF attendees = <<>> THEN <<>>
  ELSE IF Head(attendees) = u THEN withoutUser(Tail(attendees), u)
  ELSE <<Head(attendees)>> \o withoutUser(Tail(attendees), u)

\* every handler that holds a copy of the event now holds an outdated one
outdated(hs, self) ==
  [c \in Clients |-> IF c # self /\ hs[c].op # "none" THEN [hs[c] EXCEPT !.stale = TRUE]
                     ELSE hs[c]]

\* POST or DELETE /:id/register up to the answer of Event.findById
FindEvent(c, u, op) ==
  /\ handlers[c].op = "none"
  /\ \A d \in Clients : handlers[d].user # u
  /\ handlers' = [handlers EXCEPT ![c] = [op |-> op, user |-> u, event |-> event,
                                          stale |-> FALSE]]
  /\ UNCHANGED <<now, db, accounts, resp, delivered, renewals, client, coll, donations, lastCallback,
                 applying, event>>

\* POST /:id/register answers 400 before it registers: the checks of the
\* status and of the capacity on the copy the handler holds
registerRejected(loaded) ==
  \/ loaded.status # "published"
  \/ loaded.registrationRequired /\ registrationCount(loaded) >= loaded.capacity

\* POST /:id/register from its checks on: registerUser pushes the user and
\* saves, and the save appends the pushed user to the stored array
Register(c) ==
  /\ handlers[c].op = "register"
  /\ LET e == handlers[c].event
         u == handlers[c].user
     IN IF registerRejected(e) \/ isUserRegistered(e, u)
        THEN /\ resp' = [op |-> "register", code |-> 400]
             /\ UNCHANGED event
             /\ handlers' = [handlers EXCEPT ![c] = NoHandler]
        ELSE /\ event' = [event EXCEPT !.registeredAttendees = Append(@, u)]
             /\ resp' = [op |-> "register", code |-> 200]
             /\ handlers' = [outdated(handlers, c) EXCEPT ![c] = NoHandler]
  /\ UNCHANGED <<now, db, accounts,
                 delivered, renewals, client, coll, donations, lastCallback, applying>>

\* DELETE /:id/register from its check on: unregisterUser assigns the filtered
\* array and saves; the save of an assigned array is refused when the stored
\* document was written since the handler read it
Unregister(c) ==
  /\ handlers[c].op = "unregister"
  /\ LET e == handlers[c].event
         u == handlers[c].user
     IN IF ~isUserRegistered(e, u)
        THEN /\ resp' = [op |-> "unregister", code |-> 400]
             /\ UNCHANGED event
             /\ handlers' = [handlers EXCEPT ![c] = NoHandler]
        ELSE IF handlers[c].stale
        THEN /\ resp' = [op |-> "unregister", code |-> 500]
             /\ UNCHANGED event
             /\ handlers' = [handlers EXCEPT ![c] = NoHandler]
        ELSE /\ event' = [event EXCEPT !.registeredAttendees =
                                          withoutUser(e.registeredAttendees, u)]
             /\ resp' = [op |-> "unregister", code |-> 200]
             /\ handlers' = [outdated(handlers, c) EXCEPT ![c] = NoHandler]
  /\ UNCHANGED <<now, db, accounts,
                 delivered, renewals, client, coll, donations, lastCallback, applying>>

NextEvent ==
  \/ \E c \in Clients, u \in Users, op \in {"register", "unregister"} : FindEvent(c, u, op)
  \/ \E c \in Clients : Register(c)
  \/ \E c \in Clients : Unregister(c)

EventSpec == Init /\ [][NextEvent]_vars

(***************************************************************************)
(* UserSpec: the administration routes of /api/users.  Every route runs    *)
(* protect and authorize('admin') first: the requester must have an        *)
(* active account with role admin.                                         *)
(***************************************************************************)
\* request bodies of PUT /:id: the paths they carry are written as given
UserBodies ==
  {[role |-> r] : r \in {"admin", "member"}}
    \cup {[isActive |-> b] : b \in BOOLEAN}

\* protect and authorize('admin'): 0 when the request goes through, else the
\* status it is answered with
refusal(accts, a) ==
  IF ~accts[a].exists \/ ~accts[a].isActive THEN 401
  ELSE IF accts[a].role # "admin" THEN 403
  ELSE 0

\* User.findByIdAndUpdate(id, req.body): the paths of the body are set
findByIdAndUpdate(accts, id, body) ==
  [accts EXCEPT ![id] = [f \in DOMAIN accts[id] |->
                           IF f \in DOMAIN body THEN body[f] ELSE accts[id][f]]]

\* PUT /:id
UpdateUser(a, id, body) ==
  /\ IF refusal(accounts, a) # 0
     THEN /\ resp' = [op |-> "update-user", code |-> refusal(accounts, a)]
          /\ UNCHANGED accounts
     ELSE IF ~accounts[id].exists
     THEN /\ resp' = [op |-> "update-user", code |-> 404]
          /\ UNCHANGED accounts
     ELSE /\ accounts' = findByIdAndUpdate(accounts, id, body)
          /\ resp' = [op |-> "update-user", code |-> 200]
  /\ UNCHANGED <<now, db, delivered, renewals, client, coll, donations, lastCallback,
                 applying, event, handlers>>

\* DELETE /:id
DeleteUser(a, id) ==
  /\ IF refusal(accounts, a) # 0
     THEN /\ resp' = [op |-> "delete-user", code |-> refusal(accounts, a)]
          /\ UNCHANGED accounts
     ELSE IF ~accounts[id].exists
     THEN /\ resp' = [op |-> "delete-user", code |-> 404]
          /\ UNCHANGED accounts
     ELSE IF id = a
     THEN /\ resp' = [op |-> "delete-user", code |-> 400]
          /\ UNCHANGED accounts
     ELSE /\ accounts' = [accounts EXCEPT ![id].exists = FALSE]
          /\ resp' = [op |-> "delete-user", code |-> 200]
  /\ UNCHANGED <<now, db, delivered, renewals, client, coll, donations, lastCallback,
                 applying, event, handlers>>

\* PUT /:id/toggle-status
ToggleStatus(a, id) ==
  /\ IF refusal(accounts, a) # 0
     THEN /\ resp' = [op |-> "toggle-status", code |-> refusal(accounts, a)]
          /\ UNCHANGED accounts
     ELSE IF ~accounts[id].exists
     THEN /\ resp' = [op |-> "toggle-status", code |-> 404]
          /\ UNCHANGED accounts
     ELSE IF id = a
     THEN /\ resp' = [op |-> "toggle-status", code |-> 400]
          /\ UNCHANGED accounts
     ELSE /\ accounts' = [accounts EXCEPT ![id].isActive = ~@]
          /\ resp' = [op |-> "toggle-status", code |-> 200]
  /\ UNCHANGED <<now, db, delivered, renewals, client, coll, donations, lastCallback,
                 applying, event, handlers>>

\* the handler of PUT /bulk-update-roles: User.updateMany sets the role of
\* the existing accounts among userIds
bulkUpdateRoles(accts, a, userIds, r) ==
  IF a \in userIds THEN accts
  ELSE [u \in DOMAIN accts |->
          IF u \in userIds /\ accts[u].exists THEN [accts[u] EXCEPT !.role = r]
          ELSE accts[u]]

\* the router gives a PUT request to the first route its path matches: PUT
\* /:id is declared before PUT /bulk-update-roles and matches every path of
\* one segment
putRoute(segment) == "/:id"

\* PUT /bulk-update-roles as the router handles it: the handler of PUT /:id
\* runs with id 'bulk-update-roles', User.findById rejects that id and the
\* request is answered 500
BulkUpdateRoles(a, userIds, r) ==
  /\ IF refusal(accounts, a) # 0
     THEN /\ resp' = [op |-> "bulk-update-roles", code |-> refusal(accounts, a)]
          /\ UNCHANGED accounts
     ELSE IF putRoute("bulk-update-roles") = "/:id"
     THEN /\ resp' = [op |-> "bulk-update-roles", code |-> 500]
          /\ UNCHANGED accounts
     ELSE /\ accounts' = bulkUpdateRoles(accounts, a, userIds, r)
          /\ resp' = [op |-> "bulk-update-roles",
                      code |-> IF a \in userIds THEN 400 ELSE 200]
  /\ UNCHANGED <<now, db, delivered, renewals, client, coll, donations, lastCallback,
                 applying, event, handlers>>

NextUser ==
  \/ \E a \in Users, id \in Users, body \in UserBodies : UpdateUser(a, id, body)
  \/ \E a \in Users, id \in Users : DeleteUser(a, id)
  \/ \E a \in Users, id \in Users : ToggleStatus(a, id)
  \/ \E a \in Users, userIds \in SUBSET Users, r \in {"admin", "member"} :
       userIds # {} /\ BulkUpdateRoles(a, userIds, r)

UserSpec == Init /\ [][NextUser]_vars

(***************************************************************************)
(* Properties.                                                             *)
(***************************************************************************)
RECURSIVE SumCompleted(_)
SumCompleted(payments) ==
  IF payments = <<>> THEN 0
  ELSE (IF Head(payments).status = "completed" THEN Head(payments).amount ELSE 0)
       + SumCompleted(Tail(payments))

\* C1: after every payment-recording operation, paymentProgress.totalPaid is
\* the sum of the amounts of the payments whose status is completed.
C1_TotalPaidIsSumOfCompleted ==
  db # NoDoc => db.paymentProgress.totalPaid = SumCompleted(db.payments)

AllowedTransitions ==
  {<<"pending", "active">>, <<"active", "suspended">>, <<"suspended", "active">>,
   <<"expired", "active">>, <<"pending", "cancelled">>, <<"active", "cancelled">>,
   <<"suspended", "cancelled">>}

\* C2: every change of a membership's status is pending to active, active to
\* suspended, suspended to active, expired to active, or pending, active or
\* suspended to cancelled; in particular nothing leaves cancelled.
C2_StatusTransitions ==
  [][(db # NoDoc /\ db' # NoDoc /\ db'.status # db.status)
       => <<db.status, db'.status>> \in AllowedTransitions]_vars

Quiescent == \A c \in Clients : client[c].pc # "loaded"

RECURSIVE SumPaid(_)
SumPaid(cs) ==
  IF cs = {} THEN 0
  ELSE LET c == CHOOSE x \in cs : TRUE IN client[c].paid + SumPaid(cs \ {c})

\* C3: when the addPayment calls of concurrent clients have all been saved,
\* the stored totalPaid has grown by the sum of the completed amounts (by 200
\* for two payments of 100), in every interleaving.
C3_ConcurrentPaymentsAddUp ==
  Quiescent => db.paymentProgress.totalPaid = SumPaid(Clients)

\* a successful callback for c is delivered in this step and finds a payment
SuccessDelivered(c) ==
  /\ delivered'[c] = delivered[c] + 1
  /\ db # NoDoc
  /\ findPayment(db, c) # 0

\* C4: a successful callback delivered again for the same CheckoutRequestID
\* leaves totalPaid and consecutivePayments as the first delivery left them.
C4_RepeatedCallbackChangesNothing ==
  [][\A c \in CheckoutIds :
       (SuccessDelivered(c) /\ delivered[c] >= 1)
         => /\ db'.paymentProgress.totalPaid = db.paymentProgress.totalPaid
            /\ db'.paymentProgress.consecutivePayments
                 = db.paymentProgress.consecutivePayments]_vars

C4_Witness ==
  \E c \in CheckoutIds :
    /\ delivered[c] = 2
    /\ resp = [op |-> "callback", code |-> 200]
    /\ db # NoDoc
    /\ findPayment(db, c) # 0
    /\ db.payments[findPayment(db, c)].status = "completed"

\* C5: a successful callback for a payment recorded as pending makes the
\* payment completed and applies the completed-payment update: totalPaid
\* grows by the amount, consecutivePayments by 1, paymentStatus becomes
\* up_to_date and overdueAmount 0.
C5_ConfirmationUpdatesProgress ==
  [][\A c \in CheckoutIds :
       (SuccessDelivered(c) /\ db.payments[findPayment(db, c)].status = "pending")
         => LET i == findPayment(db, c)
            IN /\ db'.payments[i].status = "completed"
               /\ db'.paymentProgress.totalPaid
                    = db.paymentProgress.totalPaid + db.payments[i].amount
               /\ db'.paymentProgress.consecutivePayments
                    = db.paymentProgress.consecutivePayments + 1
               /\ db'.paymentProgress.paymentStatus = "up_to_date"
               /\ db'.paymentProgress.overdueAmount = 0]_vars

numberOf(doc) == IF doc = NoDoc THEN NoNumber ELSE doc.membershipNumber

\* C6: membershipNumber is unset until the approval, is set by the approval
\* and never changes afterwards: the only step that changes it is a
\* successful approval of a membership that has none.
C6_NumberSetOnceByApproval ==
  [][numberOf(db') # numberOf(db)
       => /\ numberOf(db) = NoNumber
          /\ db # NoDoc
          /\ resp' = [op |-> "approve", code |-> 200]]_vars

\* C7: a membership created by a successful POST /apply has status pending.
C7_AppliedIsPending ==
  (resp = [op |-> "apply", code |-> 201]) => db.status = "pending"

NotRenewable == {"suspended", "pending", "cancelled"}

\* C8: renew() on a suspended, pending or cancelled membership throws and
\* changes no field of the document, stored or loaded; the renew route
\* answers such a request with an error and stores nothing.
C8_RenewRejected ==
  [][/\ \A c \in Clients :
          (/\ client[c].pc = "loaded"
           /\ client'[c].pc = "done"
           /\ client'[c].op = "renew"
           /\ client[c].doc.status \in NotRenewable)
            => /\ client'[c].result = "threw"
               /\ client'[c].doc = client[c].doc
               /\ db' = db
     /\ \A u \in Users :
          (Renew(u) /\ db # NoDoc /\ db.status \in NotRenewable)
            => /\ resp'.code \in {400, 403}
               /\ db' = db]_vars

C8_Witness ==
  /\ \E c \in Clients :
       /\ client[c].op = "renew"
       /\ client[c].result = "threw"
       /\ client[c].doc.status = "suspended"
       /\ db = client[c].doc
  /\ resp = [op |-> "renew", code |-> 400]

\* t plus one month: as many days later as the month of t has
PlusOneMonth(t) == t + DaysInMonth(getFullYear(t), getMonth(t))

\* e is t plus one year: the same day of the same month of the next year
\* (1 March for 29 February)
IsOneYearAfter(e, t) ==
  /\ getFullYear(e) = getFullYear(t) + 1
  /\ IF getMonth(t) = 1 /\ getDate(t) = 29
     THEN getMonth(e) = 2 /\ getDate(e) = 1
     ELSE getMonth(e) = getMonth(t) /\ getDate(e) = getDate(t)

IsOnePeriodAfter(e, t, plan) ==
  IF plan = "annual" THEN IsOneYearAfter(e, t) ELSE e = PlusOneMonth(t)

\* C9: approve() at time t sets status to active, approvalDate and startDate
\* to t, and expiryDate and nextPaymentDate to t plus one year for the annual
\* plan and t plus one month for the monthly plan.
C9_ApproveSetsDates ==
  [][\A u \in Users, r \in RandomDraws :
       (Approve(u, r) /\ resp'.code = 200)
         => /\ db'.status = "active"
            /\ db'.approvalDate = now
            /\ db'.startDate = now
            /\ IsOnePeriodAfter(db'.expiryDate, now, db.fees.selectedPlan)
            /\ IsOnePeriodAfter(db'.paymentProgress.nextPaymentDate, now,
                                db.fees.selectedPlan)]_vars

C9_Witness ==
  /\ resp = [op |-> "approve", code |-> 200]
  /\ db.status = "active"
  /\ db.fees.selectedPlan = "monthly"
  /\ db.approvalDate = now
  /\ getMonth(now) = 0 /\ getDate(now) = 31
  /\ db.expiryDate = now + 31

\* C10: for a monthly plan with nextPaymentDate d > 0 days before now,
\* checkPaymentStatus() sets paymentStatus to overdue and overdueAmount to
\* floor(d / 30) times monthlyAmount; d = 65 gives twice monthlyAmount.
C10_MonthlyOverdueAmount ==
  [][\A u \in Users :
       (/\ GetMyApplication(u)
        /\ resp'.code = 200
        /\ db.fees.selectedPlan = "monthly"
        /\ db.paymentProgress.nextPaymentDate # NoDate
        /\ now > db.paymentProgress.nextPaymentDate)
         => LET d == now - db.paymentProgress.nextPaymentDate
                months == CHOOSE k \in 0..d : 30 * k <= d /\ d < 30 * (k + 1)
            IN /\ db'.paymentProgress.paymentStatus = "overdue"
               /\ db'.paymentProgress.overdueAmount = months * db.fees.monthlyAmount
               /\ d = 65 => db'.paymentProgress.overdueAmount = 2 * db.fees.monthlyAmount]_vars

C10_Witness ==
  /\ resp = [op |-> "my-application", code |-> 200]
  /\ db.fees.selectedPlan = "monthly"
  /\ db.paymentProgress.nextPaymentDate # NoDate
  /\ now - db.paymentProgress.nextPaymentDate = 65
  /\ db.paymentProgress.paymentStatus = "overdue"
  /\ db.paymentProgress.overdueAmount = 2 * db.fees.monthlyAmount

\* C11: for an annual plan whose nextPaymentDate is before now,
\* checkPaymentStatus() sets paymentStatus to overdue and overdueAmount to
\* annualAmount minus totalPaid: 2000 for an annual fee of 5000 of which 3000
\* is paid.
C11_AnnualOverdueAmount ==
  [][(/\ DoCheckPaymentStatus
      /\ db.fees.selectedPlan = "annual"
      /\ db.paymentProgress.nextPaymentDate # NoDate
      /\ db.paymentProgress.nextPaymentDate < now)
       => /\ db'.paymentProgress.paymentStatus = "overdue"
          /\ db'.paymentProgress.overdueAmount
               = db.fees.annualAmount - db.paymentProgress.totalPaid
          /\ (db.fees.annualAmount = 5000 /\ db.paymentProgress.totalPaid = 3000)
               => db'.paymentProgress.overdueAmount = 2000]_vars

C11_Witness ==
  /\ resp.op = "checkPaymentStatus()"
  /\ db.fees.selectedPlan = "annual"
  /\ db.fees.annualAmount = 5000
  /\ db.paymentProgress.totalPaid = 3000
  /\ db.paymentProgress.nextPaymentDate # NoDate
  /\ db.paymentProgress.nextPaymentDate < now
  /\ db.paymentProgress.paymentStatus = "overdue"
  /\ db.paymentProgress.overdueAmount = 2000

\* C12: after any interleaving of POST /apply requests, two concurrent
\* requests of one user included, every user is the applicant of at most one
\* membership.
C12_OneApplicationPerUser ==
  \A i, j \in 1..Len(coll) : coll[i].applicant = coll[j].applicant => i = j

\* C16: no two stored memberships have the same membershipNumber; an approval
\* whose generated number is already stored leaves no second document with it.
C16_NumbersUnique ==
  \A i, j \in 1..Len(coll) :
    (coll[i].membershipNumber # NoNumber
       /\ coll[i].membershipNumber = coll[j].membershipNumber) => i = j

C16_Witness ==
  /\ resp = [op |-> "approve", code |-> 500]
  /\ \E i, j \in 1..Len(coll) :
       /\ coll[i].status = "active"
       /\ coll[i].membershipNumber # NoNumber
       /\ coll[j].status = "pending"
       /\ coll[j].membershipNumber = NoNumber

\* C13: every route that answers with paymentProgress (GET /my-application,
\* GET /payment-history) runs checkPaymentStatus() before it responds: the
\* paymentProgress of its answer is the one checkPaymentStatus() leaves.
C13_ReadsRefreshProgress ==
  [][\A u \in Users :
       ((GetMyApplication(u) \/ GetPaymentHistory(u)) /\ resp'.code = 200)
         => db'.paymentProgress = checkPaymentStatus(db, now).paymentProgress]_vars

\* C14: when the gateway call of an initiation fails, the attempt stays
\* stored: POST /:id/pay with mpesa leaves its payment entry in payments with
\* status failed, POST /api/donations/mpesa-initiate leaves the donation it
\* created with paymentStatus pending; neither is completed or removed.
C14_FailedInitiationStaysStored ==
  [][/\ \A u \in Users, a \in Amounts :
          (Pay(u, "mpesa", a, FALSE) /\ resp'.code = 400)
            => /\ Len(db'.payments) = Len(db.payments) + 1
               /\ SubSeq(db'.payments, 1, Len(db.payments)) = db.payments
               /\ db'.payments[Len(db'.payments)].amount = a
               /\ db'.payments[Len(db'.payments)].status = "failed"
     /\ \A a \in DonationAmounts, ref \in AccountReferences, desc \in TransactionDescs :
          (MpesaInitiate(a, ref, desc, FALSE) /\ validDonation(newDonation(ref, a, desc)))
            => /\ Len(donations') = Len(donations) + 1
               /\ SubSeq(donations', 1, Len(donations)) = donations
               /\ donations'[Len(donations')].amount = a
               /\ donations'[Len(donations')].paymentStatus = "pending"]_vars

C14_Witness ==
  /\ resp = [op |-> "pay", code |-> 400]
  /\ db # NoDoc
  /\ Len(db.payments) >= 1
  /\ db.payments[Len(db.payments)].status = "failed"
  /\ \E i \in 1..Len(donations) :
       /\ donations[i].paymentStatus = "pending"
       /\ donations[i].transactionId = NoTxn

\* C15: the same donation callback (same CheckoutRequestID, ResultCode and
\* metadata) delivered a second time leaves paymentStatus, receiptNumber and
\* isVerified of the donation as the first delivery left them, and the
\* completed-donation totals of the statistics count the donation once.
C15_RepeatedDonationCallback ==
  [][\A c \in 1..MaxDonations, rc \in {0, 1032}, receipt \in Receipts :
       (/\ DonationCallback(c, rc, receipt)
        /\ Redelivery(c, rc, receipt)
        /\ lastCallback.found)
         => LET i == findDonation(donations, c)
            IN /\ Len(donations') = Len(donations)
               /\ donations'[i].paymentStatus = donations[i].paymentStatus
               /\ donations'[i].receiptNumber = donations[i].receiptNumber
               /\ donations'[i].isVerified = donations[i].isVerified
               /\ donationStats(donations') = donationStats(donations)
               /\ donations[i].paymentStatus = "completed"
                    => donationStats(donations').totalAmount
                         = donationStats([donations EXCEPT ![i].paymentStatus = "pending"]).totalAmount
                            + donations[i].amount]_vars

C15_Witness ==
  /\ lastCallback.deliveries = 2
  /\ lastCallback.found
  /\ lastCallback.resultCode = 0
  /\ lastCallback.receipt = "QK1"
  /\ findDonation(donations, lastCallback.checkoutRequestId) # 0
  /\ LET d == donations[findDonation(donations, lastCallback.checkoutRequestId)]
     IN /\ d.paymentStatus = "completed"
        /\ d.receiptNumber = "QK1"
        /\ d.isVerified
  /\ donationStats(donations).totalDonations = 1

TypeCodes == [gold |-> "GOLD", silver |-> "SILVER", bronze |-> "BRONZE"]

\* C17: the membershipNumber approve() assigns is KCE, the type code of the
\* membership, the current four-digit year, and the drawn number of 0..9999
\* written with exactly four digits, zero-padded.
C17_NumberFormat ==
  [][\A r \in LengthDraws :
       DoApprove(r)
         => LET n == db'.membershipNumber
            IN /\ Len(n) = 7
               /\ n[1] = "KCE"
               /\ n[2] = TypeCodes[db.membershipType]
               /\ n[3] = getFullYear(now) /\ n[3] \in 1000..9999
               /\ \A k \in 4..7 : n[k] \in 0..9
               /\ 1000 * n[4] + 100 * n[5] + 10 * n[6] + n[7] = r
               /\ r \in 0..9999]_vars

C17_Witness ==
  /\ resp.op = "approve()"
  /\ db.membershipType = "silver"
  /\ db.approvalDate = now
  /\ getFullYear(now) = 2025
  /\ db.membershipNumber = <<"KCE", "SILVER", 2025, 0, 0, 0, 7>>

\* the fee schedule: annual and monthly amount of each type
FeeTable ==
  [gold |-> [annual |-> 5000, monthly |-> 417],
   silver |-> [annual |-> 3000, monthly |-> 250],
   bronze |-> [annual |-> 1500, monthly |-> 125]]

\* m is a / 12 rounded to the nearest integer
IsRoundedTwelfth(m, a) == 12 * (2 * m - 1) <= 2 * a /\ 2 * a < 12 * (2 * m + 1)

\* C18: a successful application of type gold, silver or bronze stores
\* fees.annualAmount 5000, 3000 or 1500, fees.monthlyAmount
\* round(annualAmount / 12), fees.selectedPlan the requested plan and
\* fees.selectedAmount the amount of that plan; no later operation on the
\* membership changes the stored fees.
C18_FeesFixedAtApplication ==
  [][/\ \A u \in Users, type \in MembershipTypes, plan \in PaymentPlans :
          (Apply(u, type, plan, Absent, NoNumber) /\ resp'.code = 201)
            => /\ db'.fees.annualAmount = FeeTable[type].annual
               /\ db'.fees.monthlyAmount = FeeTable[type].monthly
               /\ IsRoundedTwelfth(db'.fees.monthlyAmount, db'.fees.annualAmount)
               /\ db'.fees.selectedPlan = plan
               /\ db'.fees.selectedAmount = IF plan = "monthly" THEN db'.fees.monthlyAmount
                                            ELSE db'.fees.annualAmount
     /\ (db # NoDoc) => (db' # NoDoc /\ db'.fees = db.fees)]_vars

C18_Witness ==
  /\ db # NoDoc
  /\ db.membershipType = "gold"
  /\ db.fees = [monthlyAmount |-> 417, annualAmount |-> 5000,
                selectedPlan |-> "monthly", selectedAmount |-> 417]
  /\ db.status = "active"
  /\ Len(db.payments) >= 1
  /\ db.payments[1].status = "completed"
  /\ db.lastRenewalDate # NoDate
  /\ resp = [op |-> "renew", code |-> 200]

\* C19: addPayment(data) at time t with data.status completed or left out
\* appends one payment entry and sets totalPaid to its previous value plus
\* data.amount, lastPaymentDate to t, consecutivePayments to its previous
\* value plus 1, nextPaymentDate to t plus one year (annual plan) or one
\* month (monthly plan), paymentStatus to up_to_date and overdueAmount to 0.
C19_CompletedPaymentUpdatesProgress ==
  [][\A a \in UnitAmounts, st \in {Absent, "completed"} :
       DoAddPayment(a, st)
         => /\ Len(db'.payments) = Len(db.payments) + 1
            /\ SubSeq(db'.payments, 1, Len(db.payments)) = db.payments
            /\ db'.payments[Len(db'.payments)].amount = a
            /\ db'.payments[Len(db'.payments)].status = "completed"
            /\ db'.paymentProgress.totalPaid = db.paymentProgress.totalPaid + a
            /\ db'.paymentProgress.lastPaymentDate = now
            /\ db'.paymentProgress.consecutivePayments
                 = db.paymentProgress.consecutivePayments + 1
            /\ IsOnePeriodAfter(db'.paymentProgress.nextPaymentDate, now,
                                db.fees.selectedPlan)
            /\ db'.paymentProgress.paymentStatus = "up_to_date"
            /\ db'.paymentProgress.overdueAmount = 0]_vars

C19_Witness ==
  /\ resp.op = "addPayment()"
  /\ db.fees.selectedPlan = "annual"
  /\ Len(db.payments) = 2
  /\ db.payments[1].status = "completed" /\ db.payments[1].paymentDate < now
  /\ db.payments[2].status = "completed" /\ db.payments[2].paymentDate = now
  /\ db.paymentProgress.totalPaid = db.payments[1].amount + db.payments[2].amount
  /\ db.paymentProgress.consecutivePayments = 2
  /\ db.paymentProgress.lastPaymentDate = now
  /\ getMonth(now) = 1 /\ getDate(now) = 29
  /\ getMonth(db.paymentProgress.nextPaymentDate) = 2
  /\ getDate(db.paymentProgress.nextPaymentDate) = 1
  /\ db.paymentProgress.paymentStatus = "up_to_date"

\* C20: addPayment(data) with data.status pending, failed or refunded appends
\* exactly one entry to payments and leaves every paymentProgress field and
\* the status of the membership unchanged.
C20_OtherPaymentLeavesProgress ==
  [][\A a \in UnitAmounts, st \in {"pending", "failed", "refunded"} :
       DoAddPayment(a, st)
         => /\ Len(db'.payments) = Len(db.payments) + 1
            /\ SubSeq(db'.payments, 1, Len(db.payments)) = db.payments
            /\ db'.payments[Len(db'.payments)].amount = a
            /\ db'.payments[Len(db'.payments)].status = st
            /\ \A f \in {"totalPaid", "lastPaymentDate", "nextPaymentDate", "paymentStatus",
                         "overdueAmount", "consecutivePayments"} :
                 db'.paymentProgress[f] = db.paymentProgress[f]
            /\ db'.status = db.status]_vars

C20_Witness ==
  /\ resp.op = "addPayment()"
  /\ db.status = "active"
  /\ Len(db.payments) = 2
  /\ db.payments[1].status = "completed"
  /\ db.payments[2].status = "refunded" /\ db.payments[2].paymentDate > db.payments[1].paymentDate
  /\ db.paymentProgress.totalPaid = db.payments[1].amount
  /\ db.paymentProgress.consecutivePayments = 1
  /\ db.paymentProgress.lastPaymentDate = db.payments[1].paymentDate

\* C21: renew() at time t on a membership whose status is active or expired
\* sets status to active, lastRenewalDate to t and renewalReminderSent to
\* false, and expiryDate to the previous expiryDate (t when none is set) plus
\* one year for the annual plan, one month for the monthly plan; payments and
\* paymentProgress stay as they are.
C21_RenewExtendsExpiry ==
  [][\A c \in Clients :
       (CallRenew(c) /\ client[c].doc.status \in {"active", "expired"})
         => LET before == client[c].doc
                after == client'[c].doc
                base == IF before.expiryDate # NoDate THEN before.expiryDate ELSE now
            IN /\ client'[c].result = "saved"
               /\ after.status = "active"
               /\ after.lastRenewalDate = now
               /\ after.renewalReminderSent = FALSE
               /\ IsOnePeriodAfter(after.expiryDate, base, before.fees.selectedPlan)
               /\ after.payments = before.payments
               /\ after.paymentProgress = before.paymentProgress
               /\ db'.status = "active"
               /\ db'.lastRenewalDate = now
               /\ db'.expiryDate = after.expiryDate
               /\ db'.payments = db.payments
               /\ db'.paymentProgress = db.paymentProgress]_vars

C21_Witness ==
  \E c \in Clients :
    /\ client[c].op = "renew"
    /\ client[c].result = "saved"
    /\ client[c].doc.fees.selectedPlan = "annual"
    /\ client[c].doc.approvalDate = now
    /\ client[c].doc.lastRenewalDate = now
    /\ getFullYear(client[c].doc.expiryDate) = getFullYear(now) + 2
    /\ db.expiryDate = client[c].doc.expiryDate
    /\ db.status = "active"

\* C22: PUT /:id/cancel sets the status to cancelled only for a requester who
\* is the applicant of the membership or an administrator; any other
\* requester is answered 403 and the stored membership stays as it is.
C22_CancelAuthorized ==
  [][\A u \in Users, n \in {Absent, "note"} :
       (Cancel(u, n) /\ db # NoDoc)
         => IF db.applicant = u \/ role(u) = "admin"
            THEN resp'.code = 200 /\ db'.status = "cancelled"
            ELSE resp'.code = 403 /\ db' = db]_vars

C22_Witness ==
  /\ resp = [op |-> "cancel", code |-> 403]
  /\ db # NoDoc
  /\ db.status = "active"
  /\ db.approvalDate # NoDate
  /\ Len(db.payments) >= 1

\* C23: PUT /:id/approve on a membership whose status is not pending answers
\* 400 to an administrator and leaves the stored membership as it is, so the
\* route approves no membership twice.
C23_ApproveNeedsPending ==
  [][\A u \in Users, r \in RandomDraws :
       (Approve(u, r) /\ db # NoDoc /\ db.status # "pending")
         => /\ role(u) = "admin" => resp'.code = 400
            /\ resp'.code # 200
            /\ db' = db]_vars

C23_Witness ==
  /\ resp = [op |-> "approve", code |-> 400]
  /\ db # NoDoc
  /\ db.status = "active"
  /\ db.approvalDate # NoDate
  /\ db.reviewedBy = "admin"
  /\ db.lastRenewalDate # NoDate

\* C24: PUT /:id, whatever its request body, leaves applicant, status, fees,
\* payments, paymentProgress, membershipNumber, expiryDate, approvalDate and
\* startDate of the membership as they are; it changes no path outside the
\* listed profile fields.
C24_UpdateLeavesCoreFields ==
  [][\A u \in Users, body \in UpdateBodies :
       (resp'.op = "update" /\ db # NoDoc /\ UpdateBody(u, body))
         => /\ \A f \in {"applicant", "status", "fees", "payments", "paymentProgress",
                         "membershipNumber", "expiryDate", "approvalDate", "startDate"} :
                 db'[f] = db[f]
            /\ \A f \in DOMAIN db : db'[f] # db[f] => f \in allowedFields
            /\ (resp'.code = 200 /\ body.notes # Absent) => db'.notes = body.notes]_vars

C24_Witness ==
  /\ resp = [op |-> "update", code |-> 200]
  /\ db # NoDoc
  /\ db.notes = "note"
  /\ db.applicant = "u1"
  /\ db.status = "suspended"
  /\ db.membershipNumber # NoNumber
  /\ Len(db.payments) >= 1

\* C25: the payments of a membership only grow at the end: no operation
\* removes or reorders an entry or changes the paymentId or the amount of an
\* entry, and every POST /:id/pay request that is accepted appends exactly
\* one entry.
C25_PaymentsAppendOnly ==
  [][(db # NoDoc)
       => /\ db' # NoDoc
          /\ Len(db'.payments) >= Len(db.payments)
          /\ \A i \in 1..Len(db.payments) :
               /\ db'.payments[i].paymentId = db.payments[i].paymentId
               /\ db'.payments[i].amount = db.payments[i].amount
          /\ Len(db'.payments) =
               IF resp'.op = "pay" /\ resp'.code \in {200, 400}
               THEN Len(db.payments) + 1
               ELSE Len(db.payments)]_vars

C25_Witness ==
  /\ resp = [op |-> "pay", code |-> 400]
  /\ db # NoDoc
  /\ Len(db.payments) = 2
  /\ db.payments[1].transactionId # NoTxn
  /\ db.payments[1].status = "completed"
  /\ db.payments[2].status = "failed"
  /\ db.payments[1].paymentId # db.payments[2].paymentId

\* C26: a suspended membership can return to active: from every state in
\* which the status is suspended, some sequence of approve, renew, suspend,
\* cancel, pay and update requests leads to a state in which it is active.
C26_SuspendedCanReturnToActive ==
  (db # NoDoc /\ db.status = "suspended")
    => "active" \in reachableStatuses({db}, {db.status}, now)

\* from a pending membership, active, suspended and cancelled are within reach
PendingReachesActive ==
  (db # NoDoc /\ db.status = "pending")
    => reachableStatuses({db}, {db.status}, now)
         = {"pending", "active", "suspended", "cancelled"}

\* once suspended, the status is never active again
SuspendedNeverActive ==
  [][(db # NoDoc /\ db.status = "suspended") => db'.status # "active"]_vars

\* C28: in every reachable state of a membership,
\* paymentProgress.overdueAmount is at least 0, also after
\* checkPaymentStatus() on an annual membership whose totalPaid is more than
\* fees.annualAmount.
C28_OverdueAmountNotNegative ==
  db # NoDoc => db.paymentProgress.overdueAmount >= 0

\* C29: once a successful callback has made a donation completed, no later
\* callback with the same CheckoutRequestID, whatever its ResultCode, makes
\* its paymentStatus anything but completed.
C29_CompletedDonationStaysCompleted ==
  [][\A i \in 1..Len(donations) :
       (donations[i].paymentStatus = "completed" /\ donations[i].isVerified)
         => donations'[i].paymentStatus = "completed"]_vars

\* C27: for an event with registrationRequired and a capacity, after any
\* interleaving of POST /:id/register and DELETE /:id/register requests of
\* different users, registeredAttendees has at most capacity entries and
\* holds no user twice.
C27_CapacityRespected ==
  /\ registrationCount(event) <= event.capacity
  /\ \A i, j \in 1..Len(event.registeredAttendees) :
       event.registeredAttendees[i] = event.registeredAttendees[j] => i = j

\* the account of a after the step is there, has the role it had, and is
\* active if it was
OwnAccountKept(a) ==
  /\ accounts'[a].exists
  /\ accounts'[a].role = accounts[a].role
  /\ accounts[a].isActive => accounts'[a].isActive

\* C30: no request an administrator makes through the user routes (DELETE
\* /:id, PUT /:id/toggle-status, PUT /:id, PUT /bulk-update-roles) deletes
\* the administrator's own account, sets its isActive to false or changes
\* its role.
C30_AdminKeepsOwnAccount ==
  [][\A a \in Users :
       (refusal(accounts, a) = 0
          /\ \E id \in Users :
               \/ DeleteUser(a, id)
               \/ ToggleStatus(a, id)
               \/ \E body \in UserBodies : UpdateUser(a, id, body)
               \/ \E userIds \in SUBSET Users \ {{}}, r \in {"admin", "member"} :
                    BulkUpdateRoles(a, userIds, r))
         => OwnAccountKept(a)]_vars

====
